---- MODULE Spec2Model ----
(***************************************************************************)
(* Easely: the tiered reminder scheduler (app/jobs/send_reminders.py), the *)
(* Canvas reconciler (app/jobs/refresh_data.py) and the subscription       *)
(* lifecycle sweep (app/jobs/check_expiries.py) over the store of          *)
(* app/database/models.py and app/database/queries.py.                     *)
(*                                                                         *)
(* Time is in seconds.  The jobs name some store operations that           *)
(* queries.py defines under another name; each call is modelled by the     *)
(* queries.py function that implements that store operation, as noted at   *)
(* the call.  subscription_tier is the closed variant {free, premium};     *)
(* the test `== 'premium'` of the jobs is the test for that variant.       *)
(***************************************************************************)
EXTENDS Integers, Sequences, FiniteSets, TLC

VARIABLES now, ticks, clockRead, users, tasks, courses, remote, run,
          syncResult, freshSync,
          delivered, dupSent, runSent, crashedSent, retryDup, overlapDup,
          owed, lastEvent,
          gw, driver, sweep, manual

syncVars == <<courses, remote, syncResult, freshSync>>
ghostVars == <<delivered, dupSent, runSent, crashedSent, retryDup, overlapDup>>
\* the last gateway call, the reconciler driver, the stepwise expiry sweep and
\* the manual-entry flow
extVars == <<gw, driver, sweep, manual>>
vars == <<now, ticks, clockRead, users, tasks, courses, remote, run,
          syncResult, freshSync,
          delivered, dupSent, runSent, crashedSent, retryDup, overlapDup,
          owed, lastEvent,
          gw, driver, sweep, manual>>

\* ---------------------------------------------------------------- bounds
MaxTicks == 2

\* the manual tasks a user adds within a month of the model
MaxManual == 6

Slots == {1, 2}

Hours(h) == h * 3600
Days(d) == d * 86400
Minutes(m) == m * 60
Abs(x) == IF x < 0 THEN 0 - x ELSE x

NULL == 0 - 1

TOLERANCE == 1800
PREMIUM_DURATION_DAYS == 30

Due0 == Hours(200)
PremiumExpiry0 == Due0 - Hours(5)

WindowHours == {168, 72, 24, 8, 2, 1}
Offsets == {0 - 1800, 300, 600, 1800}
Instants == { Due0 - Hours(h) + d : h \in WindowHours, d \in Offsets }

\* ---------------------------------------------------------------- models.py
ReminderTypes == {"1_week", "3_days", "1_day", "8_hours", "2_hours", "1_hour"}

NoMarkers == [r \in ReminderTypes |-> FALSE]

\* Task columns named last_<window>_reminder: the Task model declares none.
LastReminderFields == {}

\* Task.mark_reminder_sent: a reminder type outside the mapping changes nothing.
Task_mark_reminder_sent(task, reminder_type) ==
    IF reminder_type \in ReminderTypes
    THEN [task EXCEPT !.sent[reminder_type] = TRUE]
    ELSE task

\* variant: the stored tier alone decides
is_premium_TierOnly(user, t) == user.subscription_tier = "premium"

\* User.is_premium: active premium at time t.
is_premium(user, t) ==
    IF user.subscription_tier # "premium" THEN FALSE
    ELSE IF user.subscription_expiry_date = NULL THEN FALSE
    ELSE t < user.subscription_expiry_date

\* User.can_add_manual_task
can_add_manual_task(user, t) ==
    IF is_premium(user, t) THEN TRUE
    ELSE user.manual_tasks_this_month < 5

\* ---------------------------------------------------------------- send_reminders.py
\* variant: the free list's window carries the name of the weekly marker
FREE_TIER_WINDOWS_Weekly ==
    << [name |-> "1_week", hours_before |-> 24] >>

FREE_TIER_WINDOWS ==
    << [name |-> "24_hour", hours_before |-> 24] >>

PREMIUM_TIER_WINDOWS ==
    << [name |-> "1_week",   hours_before |-> 168],
       [name |-> "3_days",   hours_before |-> 72],
       [name |-> "24_hours", hours_before |-> 24],
       [name |-> "8_hours",  hours_before |-> 8],
       [name |-> "2_hours",  hours_before |-> 2],
       [name |-> "1_hour",   hours_before |-> 1] >>

\* variant: the ends of the band are left out
should_send_reminder_Strict(task, window, current_time) ==
    Abs(current_time - (task.due_date - Hours(window.hours_before))) < TOLERANCE

should_send_reminder(task, window, current_time) ==
    LET target_reminder_time == task.due_date - Hours(window.hours_before)
        time_diff == Abs(current_time - target_reminder_time)
        within_window == time_diff <= TOLERANCE
    IN  IF ~within_window THEN FALSE
        ELSE IF window.name \in LastReminderFields THEN FALSE
        ELSE TRUE

\* the tier test of process_reminders, lines 254-257
available_windows(user) ==
    IF user.subscription_tier = "premium"
    THEN PREMIUM_TIER_WINDOWS
    ELSE FREE_TIER_WINDOWS

\* variant: the window loop takes the last window that is due, not the first
FirstDueWindow_Nearest(task, user, current_time) ==
    LET ws == available_windows(user)
        due == { k \in 1..Len(ws) : should_send_reminder(task, ws[k], current_time) }
    IN  IF due = {} THEN 0
        ELSE CHOOSE k \in due : \A j \in due : k >= j

\* the window loop of process_reminders, lines 260-287: the index of the
\* first window that should_send_reminder accepts, 0 when there is none.
FirstDueWindow(task, user, current_time) ==
    LET ws == available_windows(user)
        due == { k \in 1..Len(ws) : should_send_reminder(task, ws[k], current_time) }
    IN  IF due = {} THEN 0
        ELSE CHOOSE k \in due : \A j \in due : k <= j

\* ---------------------------------------------------------------- queries.py
\* reminder_windows of get_tasks_needing_reminders: (start, end) offsets from now
reminder_windows ==
    [r \in ReminderTypes |->
        CASE r = "1_week"  -> <<Days(6) + Hours(23), Days(7) + Hours(1)>>
          [] r = "3_days"  -> <<Days(2) + Hours(23), Days(3) + Hours(1)>>
          [] r = "1_day"   -> <<Hours(23), Hours(25)>>
          [] r = "8_hours" -> <<Hours(7), Hours(9)>>
          [] r = "2_hours" -> <<Hours(1), Hours(3)>>
          [] r = "1_hour"  -> <<Minutes(30), Minutes(90)>>]

get_tasks_needing_reminders(ts, us, t) ==
    [r \in ReminderTypes |->
        { id \in 1..Len(ts) :
            /\ ts[id].is_deleted = FALSE
            /\ ts[id].is_completed = FALSE
            /\ ts[id].due_date >= t + reminder_windows[r][1]
            /\ ts[id].due_date <= t + reminder_windows[r][2]
            /\ us[ts[id].user_id].is_active = TRUE
            /\ us[ts[id].user_id].reminder_enabled = TRUE
            /\ ts[id].sent[r] = FALSE
            /\ (r = "1_day" \/ us[ts[id].user_id].subscription_tier = "premium") }]

\* the tasks process_reminders iterates: every task of the query's result,
\* once, in id order
TasksToCheck(ts, us, t) ==
    LET res == get_tasks_needing_reminders(ts, us, t)
        ids == UNION { res[r] : r \in ReminderTypes }
        F[k \in 0..Len(ts)] ==
            IF k = 0 THEN <<>>
            ELSE IF k \in ids THEN Append(F[k - 1], k) ELSE F[k - 1]
    IN  F[Len(ts)]

\* mark_reminder_sent(session, task_id, reminder_type), committed at once
mark_reminder_sent(ts, task_id, reminder_type) ==
    IF task_id \notin 1..Len(ts) THEN ts
    ELSE [ts EXCEPT ![task_id] = Task_mark_reminder_sent(ts[task_id], reminder_type)]

\* update_task_last_reminder(db, task.id, window.name, current_time): the
\* store's set-reminder-marker operation, which queries.py implements as
\* mark_reminder_sent
update_task_last_reminder(ts, task_id, window_name, current_time) ==
    mark_reminder_sent(ts, task_id, window_name)

\* an ISO-8601 string is an instant and the way its UTC offset is written;
\* datetime.isoformat() of a stored UTC timestamp writes "+00:00"
isoformat(d) == [t |-> d, fmt |-> "+00:00"]

\* a DateTime column stores the instant an ISO-8601 string denotes
DateTimeColumn(s) == s.t

\* variant: an update that names due_date also clears the sent-markers
update_task_ResetsMarkers(ts, task_id, updates) ==
    IF task_id \notin 1..Len(ts) THEN ts
    ELSE [ts EXCEPT ![task_id] =
            [f \in DOMAIN ts[task_id] |->
                IF f \in DOMAIN updates
                THEN (IF f = "due_date" THEN DateTimeColumn(updates[f]) ELSE updates[f])
                ELSE IF f = "sent" /\ "due_date" \in DOMAIN updates THEN NoMarkers
                ELSE ts[task_id][f]]]

\* variant: an update that names due_date also reopens the task
update_task_Reopens(ts, task_id, updates) ==
    IF task_id \notin 1..Len(ts) THEN ts
    ELSE [ts EXCEPT ![task_id] =
            [f \in DOMAIN ts[task_id] |->
                IF f \in DOMAIN updates
                THEN (IF f = "due_date" THEN DateTimeColumn(updates[f]) ELSE updates[f])
                ELSE IF f = "is_completed" /\ "due_date" \in DOMAIN updates THEN FALSE
                ELSE ts[task_id][f]]]

\* update_task(session, task_id, updates): only the named fields change
update_task(ts, task_id, updates) ==
    IF task_id \notin 1..Len(ts) THEN ts
    ELSE [ts EXCEPT ![task_id] =
            [f \in DOMAIN ts[task_id] |->
                IF f \in DOMAIN updates
                THEN (IF f = "due_date" THEN DateTimeColumn(updates[f]) ELSE updates[f])
                ELSE ts[task_id][f]]]

mark_task_completed(ts, task_id) == update_task(ts, task_id, [is_completed |-> TRUE])

\* variant: deletion also purges the row's correlation id and markers
soft_delete_task_Purges(ts, task_id) ==
    IF task_id \notin 1..Len(ts) THEN ts
    ELSE [ts EXCEPT ![task_id] = [@ EXCEPT !.is_deleted = TRUE,
                                           !.canvas_assignment_id = NULL,
                                           !.sent = NoMarkers]]

soft_delete_task(ts, task_id) == update_task(ts, task_id, [is_deleted |-> TRUE])

update_user_subscription(us, user_id, tier, expiry_date) ==
    [us EXCEPT ![user_id].subscription_tier = tier,
               ![user_id].subscription_expiry_date = expiry_date]

get_expired_premium_users(us, t) ==
    { u \in DOMAIN us :
        /\ us[u].subscription_tier = "premium"
        /\ us[u].subscription_expiry_date # NULL
        /\ us[u].subscription_expiry_date < t
        /\ us[u].is_active = TRUE }

downgrade_expired_users(us, user_ids) ==
    [u \in DOMAIN us |->
        IF u \in user_ids
        THEN [us[u] EXCEPT !.subscription_tier = "free",
                           !.subscription_expiry_date = NULL]
        ELSE us[u]]

\* payment_api.calculate_expiry_date
calculate_expiry_date_Short(start_date) == start_date + Days(PREMIUM_DURATION_DAYS - 1)

calculate_expiry_date(start_date) == start_date + Days(PREMIUM_DURATION_DAYS)

\* ---------------------------------------------------------------- canvas_api.py
\* what one request of _make_canvas_request ends in: a response, or the
\* exception raised for 401, for 429, for any other failure.  TokenInvalidError
\* and RateLimitError are subclasses of CanvasAPIError (lines 21-33).
RequestErrors == {"TokenInvalidError", "RateLimitError", "CanvasAPIError"}
RequestOutcomes == {"ok"} \cup RequestErrors

\* an upstream assignment without a due date
NoDueAt == [t |-> 0 - 1, fmt |-> "none"]

\* variant: every string parses
fromisoformat_Lenient(due_at_str) == due_at_str.t

\* datetime.fromisoformat(due_at_str.replace('Z', '+00:00')): the instant, or
\* ValueError (here -1) for a string that is no ISO-8601 timestamp
fromisoformat(due_at_str) ==
    LET replaced == IF due_at_str.fmt = "Z"
                    THEN [due_at_str EXCEPT !.fmt = "+00:00"]
                    ELSE due_at_str
    IN  IF replaced.fmt = "+00:00" THEN replaced.t ELSE 0 - 1

\* get_courses(token): request is the outcome of the courses request
get_courses(rem, request) ==
    IF request # "ok" THEN [error |-> request, items |-> {}]
    ELSE [error |-> "none",
          items |-> { c \in rem.courses : c.workflow_state = "available" }]

\* get_assignments(token): outcome.courses is the outcome of the courses
\* request, outcome.assignments[c] that of the assignments request of course
\* c; a CanvasAPIError (of any subclass) of a course's request is logged and
\* the course skipped (lines 298-300)
get_assignments(rem, outcome) ==
    LET listed == get_courses(rem, outcome.courses)
    IN  IF listed.error # "none" THEN [error |-> listed.error, items |-> {}]
        ELSE [error |-> "none",
              items |-> { a \in rem.assignments :
                            /\ \E c \in listed.items : c.id = a.course_id
                            /\ outcome.assignments[a.course_id] = "ok"
                            /\ a.due_at # NoDueAt
                            /\ a.workflow_state = "published"
                            /\ fromisoformat(a.due_at) # 0 - 1 }]

\* ---------------------------------------------------------------- refresh_data.py
RECURSIVE Ascending(_)
Ascending(S) ==
    IF S = {} THEN <<>>
    ELSE LET m == CHOOSE x \in S : \A y \in S : x <= y
         IN  <<m>> \o Ascending(S \ {m})

\* variant: the constraint on (user, assignment id) is not enforced
uq_user_canvas_assignment_Off(ts, user_id, assignment_id) == TRUE

\* models.py uq_user_canvas_assignment: no second row for (user, assignment id)
uq_user_canvas_assignment(ts, user_id, assignment_id) ==
    ~ \E id \in 1..Len(ts) : /\ ts[id].user_id = user_id
                             /\ ts[id].canvas_assignment_id = assignment_id

\* models.py uq_user_canvas_course: no second row for (user, course id)
uq_user_canvas_course(cs, user_id, canvas_course_id) ==
    ~ \E c \in 1..Len(cs) : /\ cs[c].user_id = user_id
                            /\ cs[c].canvas_course_id = canvas_course_id

\* models.py uq_user_canvas_event: no second row for (user, event id); rows
\* without event id do not collide
uq_user_canvas_event(ts, user_id, event_id) ==
    \/ event_id = NULL
    \/ ~ \E id \in 1..Len(ts) : /\ ts[id].user_id = user_id
                                /\ ts[id].canvas_event_id = event_id

\* queries.create_manual_task: a new manual row, None (ok = FALSE) when the
\* store refuses it
create_manual_task(ts, user_id, task_data) ==
    LET row == [user_id |-> user_id,
                course_id |-> NULL,
                canvas_assignment_id |-> NULL,
                canvas_event_id |-> task_data.canvas_event_id,
                source |-> "manual_entry",
                title |-> task_data.title,
                due_date |-> task_data.due_date,
                is_completed |-> FALSE, is_deleted |-> FALSE, sent |-> NoMarkers]
    IN  IF uq_user_canvas_event(ts, user_id, task_data.canvas_event_id)
        THEN [ok |-> TRUE, tasks |-> Append(ts, row)]
        ELSE [ok |-> FALSE, tasks |-> ts]

\* now.replace(day=1, hour=0, minute=0, second=0, microsecond=0); the months
\* of the model are 31 days long
month_start(t) == (t \div Days(31)) * Days(31)

\* queries.increment_user_monthly_tasks
increment_user_monthly_tasks(us, user_id, t) ==
    IF t >= us[user_id].month_reset_date + Days(31)
    THEN [us EXCEPT ![user_id].manual_tasks_this_month = 1,
                    ![user_id].month_reset_date = month_start(t)]
    ELSE [us EXCEPT ![user_id].manual_tasks_this_month = @ + 1]

\* get_user_canvas_tasks(db, user.id): the user's mirrored, non-deleted
\* assignment tasks (row ids)
get_user_canvas_tasks(ts, user_id) ==
    { id \in 1..Len(ts) : /\ ts[id].user_id = user_id
                          /\ ts[id].is_deleted = FALSE
                          /\ ts[id].source = "canvas_assignment" }

\* create_task(db, task_data): a new remote-assignment row, its course
\* resolved by upstream course id; refused by the store's unique constraint
create_task(ts, cs, task_data) ==
    LET course == { c \in 1..Len(cs) : /\ cs[c].user_id = task_data.user_id
                                       /\ cs[c].canvas_course_id = task_data.course_id }
        row == [user_id |-> task_data.user_id,
                course_id |-> IF course = {} THEN NULL ELSE CHOOSE c \in course : TRUE,
                canvas_assignment_id |-> task_data.canvas_assignment_id,
                canvas_event_id |-> NULL,
                source |-> "canvas_assignment",
                title |-> task_data.title,
                due_date |-> DateTimeColumn(task_data.due_date),
                is_completed |-> FALSE, is_deleted |-> FALSE, sent |-> NoMarkers]
    IN  IF uq_user_canvas_assignment(ts, task_data.user_id, task_data.canvas_assignment_id)
        THEN [ok |-> TRUE, tasks |-> Append(ts, row)]
        ELSE [ok |-> FALSE, tasks |-> ts]

\* delete_task(db, task.id): the store's soft delete
delete_task(ts, task_id) == soft_delete_task(ts, task_id)

\* create_course(db, course_data)
create_course(cs, course_data) ==
    IF uq_user_canvas_course(cs, course_data.user_id, course_data.canvas_course_id)
    THEN [ok |-> TRUE,
          courses |-> Append(cs, [user_id |-> course_data.user_id,
                                  canvas_course_id |-> course_data.canvas_course_id,
                                  course_name |-> course_data.course_name,
                                  is_active |-> TRUE])]
    ELSE [ok |-> FALSE, courses |-> cs]

\* get_user_courses(session, user_id, active_only=True)
get_user_courses(cs, user_id) ==
    { c \in 1..Len(cs) : cs[c].user_id = user_id /\ cs[c].is_active = TRUE }

\* variant: the first refused create ends the loop
RECURSIVE CreateNew_StopsOnFailure(_, _, _, _, _)
CreateNew_StopsOnFailure(ts, cs, user_id, assignments, ids) ==
    IF ids = <<>> THEN [tasks |-> ts, added |-> 0]
    ELSE LET assignment == CHOOSE a \in assignments : a.id = Head(ids)
             task_data == [user_id |-> user_id,
                           canvas_assignment_id |-> Head(ids),
                           title |-> assignment.name,
                           due_date |-> assignment.due_at,
                           course_id |-> assignment.course_id,
                           source |-> "canvas_sync"]
             r == create_task(ts, cs, task_data)
             rest == IF r.ok
                     THEN CreateNew_StopsOnFailure(r.tasks, cs, user_id, assignments, Tail(ids))
                     ELSE [tasks |-> ts, added |-> 0]
         IN  [tasks |-> rest.tasks,
              added |-> rest.added + (IF r.ok THEN 1 ELSE 0)]

\* lines 90-107 of sync_user_assignments: create a task for each new id
RECURSIVE CreateNew(_, _, _, _, _)
CreateNew(ts, cs, user_id, assignments, ids) ==
    IF ids = <<>> THEN [tasks |-> ts, added |-> 0]
    ELSE LET assignment == CHOOSE a \in assignments : a.id = Head(ids)
             task_data == [user_id |-> user_id,
                           canvas_assignment_id |-> Head(ids),
                           title |-> assignment.name,
                           due_date |-> assignment.due_at,
                           course_id |-> assignment.course_id,
                           source |-> "canvas_sync"]
             r == create_task(ts, cs, task_data)
             rest == CreateNew(r.tasks, cs, user_id, assignments, Tail(ids))
         IN  [tasks |-> rest.tasks,
              added |-> rest.added + (IF r.ok THEN 1 ELSE 0)]

\* lines 118-121: the test that decides whether a mirrored task is updated
due_date_changed(assignment, existing_task) ==
    assignment.due_at # isoformat(existing_task.due_date)

\* lines 109-129: update the mirrored tasks whose due date is seen as changed
RECURSIVE UpdateChanged(_, _, _, _)
UpdateChanged(ts, existing, assignments, ids) ==
    IF ids = <<>> THEN [tasks |-> ts, updated |-> 0]
    ELSE LET assignment == CHOOSE a \in assignments : a.id = Head(ids)
             matching == { id \in existing : ts[id].canvas_assignment_id = Head(ids) }
             task_id == CHOOSE id \in matching : \A j \in matching : id <= j
             change == due_date_changed(assignment, ts[task_id])
             ts1 == IF change
                    THEN update_task(ts, task_id, [title |-> assignment.name,
                                                   due_date |-> assignment.due_at])
                    ELSE ts
             rest == UpdateChanged(ts1, existing, assignments, Tail(ids))
         IN  [tasks |-> rest.tasks,
              updated |-> rest.updated + (IF change THEN 1 ELSE 0)]

\* lines 131-137: soft-delete the mirrored tasks that left the snapshot
RECURSIVE DeleteGone(_, _)
DeleteGone(ts, ids) ==
    IF ids = <<>> THEN [tasks |-> ts, deleted |-> 0]
    ELSE LET rest == DeleteGone(delete_task(ts, Head(ids)), Tail(ids))
         IN  [tasks |-> rest.tasks, deleted |-> rest.deleted + 1]

\* variant: the mirrored tasks are read without the filter on the user
sync_user_assignments_AllUsers(ts, cs, user_id, canvas_assignments) ==
    LET existing_tasks == { id \in 1..Len(ts) : /\ ts[id].is_deleted = FALSE
                                                 /\ ts[id].source = "canvas_assignment" }
        existing_task_ids ==
            { ts[id].canvas_assignment_id : id \in existing_tasks } \ {NULL}
        canvas_assignment_ids == { a.id : a \in canvas_assignments }
        new_assignment_ids == canvas_assignment_ids \ existing_task_ids
        created == CreateNew(ts, cs, user_id, canvas_assignments,
                             Ascending(new_assignment_ids))
        existing_assignment_ids == canvas_assignment_ids \cap existing_task_ids
        changed == UpdateChanged(created.tasks, existing_tasks, canvas_assignments,
                                 Ascending(existing_assignment_ids))
        deleted_assignment_ids == existing_task_ids \ canvas_assignment_ids
        gone == { id \in existing_tasks :
                    ts[id].canvas_assignment_id \in deleted_assignment_ids }
        removed == DeleteGone(changed.tasks, Ascending(gone))
    IN  [tasks |-> removed.tasks, added |-> created.added,
         updated |-> changed.updated, deleted |-> removed.deleted]

sync_user_assignments(ts, cs, user_id, canvas_assignments) ==
    LET existing_tasks == get_user_canvas_tasks(ts, user_id)
        existing_task_ids ==
            { ts[id].canvas_assignment_id : id \in existing_tasks } \ {NULL}
        canvas_assignment_ids == { a.id : a \in canvas_assignments }
        new_assignment_ids == canvas_assignment_ids \ existing_task_ids
        created == CreateNew(ts, cs, user_id, canvas_assignments,
                             Ascending(new_assignment_ids))
        existing_assignment_ids == canvas_assignment_ids \cap existing_task_ids
        changed == UpdateChanged(created.tasks, existing_tasks, canvas_assignments,
                                 Ascending(existing_assignment_ids))
        deleted_assignment_ids == existing_task_ids \ canvas_assignment_ids
        gone == { id \in existing_tasks :
                    ts[id].canvas_assignment_id \in deleted_assignment_ids }
        removed == DeleteGone(changed.tasks, Ascending(gone))
    IN  [tasks |-> removed.tasks, added |-> created.added,
         updated |-> changed.updated, deleted |-> removed.deleted]

\* lines 165-191 of sync_user_courses: a new course is created; a renamed
\* course is counted as updated and not written
RECURSIVE SyncCourses(_, _, _, _, _)
SyncCourses(cs, existing, user_id, canvas_courses, ids) ==
    IF ids = <<>> THEN [courses |-> cs, added |-> 0, updated |-> 0]
    ELSE LET course == CHOOSE c \in canvas_courses : c.id = Head(ids)
             known == { c \in existing : cs[c].canvas_course_id = Head(ids) }
             r == IF known = {}
                  THEN create_course(cs, [user_id |-> user_id,
                                          canvas_course_id |-> Head(ids),
                                          course_name |-> course.name])
                  ELSE [ok |-> FALSE, courses |-> cs]
             renamed == /\ known # {}
                        /\ cs[CHOOSE c \in known : \A j \in known : c <= j].course_name
                              # course.name
             rest == SyncCourses(r.courses, existing, user_id, canvas_courses, Tail(ids))
         IN  [courses |-> rest.courses,
              added |-> rest.added + (IF r.ok THEN 1 ELSE 0),
              updated |-> rest.updated + (IF renamed THEN 1 ELSE 0)]

sync_user_courses(cs, user_id, canvas_courses) ==
    SyncCourses(cs, get_user_courses(cs, user_id), user_id, canvas_courses,
                Ascending({ c.id : c \in canvas_courses }))

\* mark_user_token_invalid (queries.py), called as update_user_token_status
mark_user_token_invalid(us, user_id) ==
    [us EXCEPT ![user_id].token_invalid = TRUE]

\* update_user_canvas_info(session, user_id, canvas_data) at time t: the new
\* credential is stored, the flag reset, the sync time set
update_user_canvas_info(us, user_id, canvas_token, t) ==
    [us EXCEPT ![user_id].canvas_token = canvas_token,
               ![user_id].token_invalid = FALSE,
               ![user_id].last_sync_at = t]

\* order_by(last_sync_at asc nullsfirst): NULL is below every time; users
\* with the same time are taken in id order
RECURSIVE OrderByLastSync(_, _)
OrderByLastSync(us, S) ==
    IF S = {} THEN <<>>
    ELSE LET first == CHOOSE u \in S : \A v \in S :
                          \/ us[u].last_sync_at < us[v].last_sync_at
                          \/ us[u].last_sync_at = us[v].last_sync_at /\ u <= v
         IN  <<first>> \o OrderByLastSync(us, S \ {first})

\* variant: the three conditions of the selection are conjoined with the
\* flag, an invalid credential is never selected
get_users_for_canvas_refresh_ValidOnly(us, t, batch_size) ==
    LET sel == { u \in DOMAIN us :
                   /\ us[u].is_active = TRUE
                   /\ us[u].canvas_token # NULL
                   /\ us[u].token_invalid = FALSE }
        ordered == OrderByLastSync(us, sel)
    IN  SubSeq(ordered, 1, IF Len(ordered) < batch_size THEN Len(ordered) ELSE batch_size)

\* get_users_for_canvas_refresh(session, batch_size) evaluated at time t
get_users_for_canvas_refresh(us, t, batch_size) ==
    LET cutoff_time == t - Hours(6)
        sel == { u \in DOMAIN us :
                   /\ us[u].is_active = TRUE
                   /\ us[u].canvas_token # NULL
                   /\ \/ us[u].last_sync_at = NULL
                      \/ us[u].last_sync_at < cutoff_time
                      \/ us[u].token_invalid = FALSE }
        ordered == OrderByLastSync(us, sel)
    IN  SubSeq(ordered, 1, IF Len(ordered) < batch_size THEN Len(ordered) ELSE batch_size)

\* ---------------------------------------------------------------- state
NewUser(tier, expiry) ==
    [subscription_tier |-> tier, subscription_expiry_date |-> expiry,
     is_active |-> TRUE, reminder_enabled |-> TRUE, token_invalid |-> FALSE,
     manual_tasks_this_month |-> 0, month_reset_date |-> 0,
     canvas_token |-> 1, last_sync_at |-> NULL]

NewTask(user_id, course_id, assignment_id, title, due) ==
    [user_id |-> user_id, course_id |-> course_id,
     canvas_assignment_id |-> assignment_id, canvas_event_id |-> NULL,
     source |-> "canvas_assignment", title |-> title, due_date |-> due,
     is_completed |-> FALSE, is_deleted |-> FALSE, sent |-> NoMarkers]

NewCourse(user_id, canvas_course_id, name) ==
    [user_id |-> user_id, canvas_course_id |-> canvas_course_id,
     course_name |-> name, is_active |-> TRUE]

IdleRun == [pc |-> "idle", current_time |-> 0, cands |-> <<>>, idx |-> 0,
            window |-> 0, tier |-> "free", attempted |-> {}]

NoEvent == [kind |-> "none", task |-> 0, hours |-> 0, name |-> "", ok |-> FALSE,
            tier |-> "free", premium |-> FALSE, sentBefore |-> NoMarkers, slot |-> 0,
            at |-> 0, dueUnsent |-> {}, again |-> FALSE]

NoOwed == [task |-> 0, hours |-> 0, since |-> 0, answered |-> FALSE, by |-> 0]

\* the upstream course ids of the model; the outcomes of the requests of one
\* fetch: the courses request and the per-course requests of get_assignments,
\* the request of get_courses
CourseIds == {11, 12, 21}

AllOk == [courses |-> "ok", assignments |-> [c \in CourseIds |-> "ok"], listing |-> "ok"]

NoSync == [user |-> 0, success |-> FALSE, error |-> "",
           assignments_added |-> 0, assignments_updated |-> 0,
           assignments_deleted |-> 0, courses_added |-> 0, courses_updated |-> 0,
           repeat |-> FALSE, rowsUnchanged |-> TRUE,
           outcome |-> AllOk, fetches |-> 0]

NoCall == [op |-> "none", outcome |-> AllOk, error |-> "none", items |-> {}]

IdleDriver == [pc |-> "idle", queue |-> <<>>, idx |-> 0, attempted |-> <<>>,
               users_processed |-> 0, users_failed |-> 0, tokens_invalidated |-> 0]

IdleSweep == [pc |-> "idle", at |-> 0, users |-> <<>>, expired |-> <<>>, idx |-> 0,
              reverted |-> {}, unnotified |-> {},
              downgraded |-> [u \in 1..3 |-> 0], attempts |-> [u \in 1..3 |-> 0]]

NoManual == [kind |-> "none", user |-> 0, at |-> 0, premium |-> FALSE, count |-> 0]

\* what the upstream provider may hold for a user
Formats == {"Z", "+00:00"}
LaterDue == Due0 + Hours(6)

Upstream(id, name, t, fmt, course_id) ==
    [id |-> id, name |-> name, due_at |-> [t |-> t, fmt |-> fmt], course_id |-> course_id,
     workflow_state |-> "published"]

UpstreamCourse(id, name) == [id |-> id, name |-> name, workflow_state |-> "available"]

UpstreamAssignments(u) ==
    IF u = 1
    THEN { Upstream(101, "essay", Due0, f, 11) : f \in Formats }
         \cup { Upstream(101, "essay v2", Due0, "+00:00", 11),
                Upstream(101, "essay", LaterDue, "Z", 11),
                Upstream(102, "lab", Due0, "+00:00", 11) }
    ELSE { Upstream(201, "quiz", d, "Z", 21) : d \in {Due0, LaterDue} }

UpstreamCourses(u) ==
    IF u = 1
    THEN { UpstreamCourse(11, n) : n \in {"Algebra", "Algebra II"} }
    ELSE { UpstreamCourse(21, "Biology") }

\* the fetches of a user's data: only the requests for the user's own courses
\* can fail
FetchOutcomes(cs) ==
    { [courses |-> a,
       assignments |-> [c \in CourseIds |-> IF c \in cs THEN f[c] ELSE "ok"],
       listing |-> l] : a \in RequestOutcomes, f \in [cs -> RequestOutcomes],
                        l \in RequestOutcomes }

\* upstream records of every kind the gateway meets: no due date, an
\* unparseable due date, not published
RawAssignments ==
    { Upstream(101, "essay", Due0, "Z", 11),
      Upstream(102, "lab", Due0, "+00:00", 11),
      [Upstream(103, "reading", Due0, "Z", 11) EXCEPT !.due_at = NoDueAt],
      [Upstream(104, "draft", Due0, "Z", 12) EXCEPT !.workflow_state = "unpublished"],
      Upstream(105, "poster", Due0, "garbled", 12),
      Upstream(106, "report", LaterDue, "Z", 12) }

RawCourses == { UpstreamCourse(11, "Algebra"), UpstreamCourse(12, "Physics") }

Remote0 ==
    << [assignments |-> { Upstream(101, "essay", Due0, "Z", 11) },
        courses |-> { UpstreamCourse(11, "Algebra") }],
       [assignments |-> { Upstream(201, "quiz", Due0, "Z", 21) },
        courses |-> { UpstreamCourse(21, "Biology") }] >>

Users0 == << NewUser("free", NULL), NewUser("premium", PremiumExpiry0) >>

InitGhosts ==
    /\ run = [i \in Slots |-> IdleRun]
    /\ delivered = {}
    /\ dupSent = FALSE
    /\ runSent = [i \in Slots |-> {}]
    /\ crashedSent = {}
    /\ retryDup = FALSE
    /\ overlapDup = FALSE
    /\ lastEvent = NoEvent
    /\ owed = NoOwed
    /\ clockRead = FALSE
    /\ syncResult = NoSync
    /\ freshSync = 0
    /\ gw = NoCall
    /\ driver = IdleDriver
    /\ sweep = IdleSweep
    /\ manual = NoManual

\* the mirror after a first reconciliation of Remote0
Mirror0 ==
    /\ users = Users0
    /\ remote = Remote0
    /\ tasks = << NewTask(1, NULL, 101, "essay", Due0),
                  NewTask(2, NULL, 201, "quiz", Due0) >>
    /\ courses = << NewCourse(1, 11, "Algebra"), NewCourse(2, 21, "Biology") >>

Init ==
    /\ now \in Instants
    /\ ticks = 0
    /\ Mirror0
    /\ InitGhosts

\* ---------------------------------------------------------------- clock
TickIn(S) ==
    /\ ticks < MaxTicks
    /\ ticks' = ticks + 1
    /\ \E n \in S : n > now /\ now' = n
    /\ clockRead' = FALSE
    /\ lastEvent' = NoEvent
    /\ UNCHANGED <<users, tasks, run, ghostVars, owed, syncVars, extVars>>

Tick == TickIn(Instants)

\* ---------------------------------------------------------------- process_reminders
CurTask(i) == run[i].cands[run[i].idx]

Triple(t, h) == [task |-> t, hours |-> h, target |-> tasks[t].due_date - Hours(h)]

\* get_reminder_status: the marker that records the window h hours before due
MarkerOf(h) ==
    CASE h = 168 -> "1_week"
      [] h = 72  -> "3_days"
      [] h = 24  -> "1_day"
      [] h = 8   -> "8_hours"
      [] h = 2   -> "2_hours"
      [] h = 1   -> "1_hour"

InBand(t, due, h) == Abs(t - (due - Hours(h))) <= TOLERANCE

\* the hours of the windows of the user's list that are inside their band at
\* time t and whose marker is still false
DueUnsent(task, user, t) ==
    LET ws == available_windows(user)
    IN  { ws[k].hours_before : k \in { j \in 1..Len(ws) :
            /\ InBand(t, task.due_date, ws[j].hours_before)
            /\ task.sent[MarkerOf(ws[j].hours_before)] = FALSE } }

Nearest(S) == CHOOSE h \in S : \A g \in S : h <= g
Furthest(S) == CHOOSE h \in S : \A g \in S : h >= g

\* the nearer window left over by an earlier invocation is missed when a later
\* invocation inside its band does not select the task although the task is
\* still open and its user still premium
Missed(cs) ==
    IF /\ owed.task # 0
       /\ owed.answered = FALSE
       /\ now > owed.since
       /\ InBand(now, tasks[owed.task].due_date, owed.hours)
       /\ users[tasks[owed.task].user_id].subscription_tier = "premium"
       /\ tasks[owed.task].is_deleted = FALSE
       /\ tasks[owed.task].is_completed = FALSE
       /\ \A k \in 1..Len(cs) : cs[k] # owed.task
    THEN [owed EXCEPT !.answered = TRUE, !.by = 0]
    ELSE owed

\* lines 231-248: read the clock, query the candidates.  The wall clock has
\* advanced since the previous invocation read it.
StartRun(i) ==
    /\ run[i].pc = "idle"
    /\ clockRead = FALSE
    /\ clockRead' = TRUE
    /\ LET cs == TasksToCheck(tasks, users, now)
       IN  run' = [run EXCEPT ![i] =
                IF cs = <<>> THEN IdleRun
                ELSE [IdleRun EXCEPT !.pc = "loop", !.current_time = now,
                                     !.cands = cs, !.idx = 1]]
    /\ runSent' = [runSent EXCEPT ![i] = {}]
    /\ owed' = Missed(TasksToCheck(tasks, users, now))
    /\ lastEvent' = [NoEvent EXCEPT !.kind = "start", !.slot = i, !.at = now]
    /\ UNCHANGED <<now, ticks, users, tasks, delivered, dupSent, crashedSent,
                   retryDup, overlapDup, syncVars, extVars>>

\* the nearer window left over by an earlier invocation is answered by the
\* first later invocation that evaluates the task inside that window's band
Answer(i, t, h) ==
    IF /\ owed.task = t
       /\ owed.answered = FALSE
       /\ run[i].current_time > owed.since
       /\ InBand(run[i].current_time, tasks[t].due_date, owed.hours)
       /\ users[tasks[t].user_id].subscription_tier = "premium"
    THEN [owed EXCEPT !.answered = TRUE, !.by = h]
    ELSE owed

\* an attempt made while two windows were due and unsent leaves the nearer one
Owe(i, t, h) ==
    LET du == DueUnsent(tasks[t], users[tasks[t].user_id], run[i].current_time)
    IN  IF Cardinality(du) >= 2
        THEN [task |-> t, hours |-> Nearest(du), since |-> run[i].current_time,
              answered |-> FALSE, by |-> 0]
        ELSE Answer(i, t, h)

\* lines 251-261: no window of the task is due, next task
NoWindowDue(i) ==
    /\ run[i].pc = "loop"
    /\ run[i].idx <= Len(run[i].cands)
    /\ FirstDueWindow(tasks[CurTask(i)], users[tasks[CurTask(i)].user_id], run[i].current_time) = 0
    /\ run' = [run EXCEPT ![i].idx = @ + 1]
    /\ owed' = Answer(i, CurTask(i), 0)
    /\ lastEvent' = [NoEvent EXCEPT !.kind = "skip", !.task = CurTask(i), !.slot = i,
                                    !.at = run[i].current_time]
    /\ UNCHANGED <<now, ticks, clockRead, users, tasks, ghostVars, syncVars, extVars>>

AttemptEvent(i, t, w, ok) ==
    [kind |-> "attempt", task |-> t, hours |-> w.hours_before, name |-> w.name,
     ok |-> ok, tier |-> users[tasks[t].user_id].subscription_tier,
     premium |-> is_premium(users[tasks[t].user_id], run[i].current_time),
     sentBefore |-> tasks[t].sent, slot |-> i, at |-> run[i].current_time,
     dueUnsent |-> DueUnsent(tasks[t], users[tasks[t].user_id], run[i].current_time),
     again |-> t \in run[i].attempted]

\* lines 261-279: send_reminder_to_user returned True
SendSucceeds(i) ==
    /\ run[i].pc = "loop"
    /\ run[i].idx <= Len(run[i].cands)
    /\ LET t == CurTask(i)
           user == users[tasks[t].user_id]
           k == FirstDueWindow(tasks[t], user, run[i].current_time)
       IN  /\ k # 0
           /\ LET w == available_windows(user)[k]
                  x == Triple(t, w.hours_before)
              IN  /\ run' = [run EXCEPT ![i].pc = "mark", ![i].window = k,
                                        ![i].tier = user.subscription_tier,
                                        ![i].attempted = @ \cup {t}]
                  /\ delivered' = delivered \cup {x}
                  /\ dupSent' = (dupSent \/ (x \in delivered /\ x \notin crashedSent))
                  /\ runSent' = [runSent EXCEPT ![i] = @ \cup {x}]
                  /\ retryDup' = (retryDup \/ x \in crashedSent)
                  /\ overlapDup' =
                        (overlapDup \/ \E j \in Slots \ {i} :
                                          run[j].pc # "idle" /\ x \in runSent[j])
                  /\ owed' = Owe(i, t, w.hours_before)
                  /\ lastEvent' = AttemptEvent(i, t, w, TRUE)
    /\ UNCHANGED <<now, ticks, clockRead, users, tasks, crashedSent, syncVars, extVars>>

\* variant: the marker is written although the send failed
SendFails_MarksAnyway(i) ==
    /\ run[i].pc = "loop"
    /\ run[i].idx <= Len(run[i].cands)
    /\ LET t == CurTask(i)
           user == users[tasks[t].user_id]
           k == FirstDueWindow(tasks[t], user, run[i].current_time)
       IN  /\ k # 0
           /\ owed' = Owe(i, t, available_windows(user)[k].hours_before)
           /\ lastEvent' = AttemptEvent(i, t, available_windows(user)[k], FALSE)
           /\ tasks' = update_task_last_reminder(tasks, t, available_windows(user)[k].name,
                                                  run[i].current_time)
    /\ run' = [run EXCEPT ![i].idx = @ + 1, ![i].attempted = @ \cup {CurTask(i)}]
    /\ UNCHANGED <<now, ticks, clockRead, users, ghostVars, syncVars, extVars>>

\* variant: a failed send ends the invocation
SendFails_Stops(i) ==
    /\ run[i].pc = "loop"
    /\ run[i].idx <= Len(run[i].cands)
    /\ LET t == CurTask(i)
           user == users[tasks[t].user_id]
           k == FirstDueWindow(tasks[t], user, run[i].current_time)
       IN  /\ k # 0
           /\ owed' = Owe(i, t, available_windows(user)[k].hours_before)
           /\ lastEvent' = AttemptEvent(i, t, available_windows(user)[k], FALSE)
    /\ run' = [run EXCEPT ![i] = IdleRun]
    /\ UNCHANGED <<now, ticks, clockRead, users, tasks, ghostVars, syncVars, extVars>>

\* lines 283-287: send_reminder_to_user returned False (SendText returned
\* false or raised), then break
SendFails(i) ==
    /\ run[i].pc = "loop"
    /\ run[i].idx <= Len(run[i].cands)
    /\ LET t == CurTask(i)
           user == users[tasks[t].user_id]
           k == FirstDueWindow(tasks[t], user, run[i].current_time)
       IN  /\ k # 0
           /\ owed' = Owe(i, t, available_windows(user)[k].hours_before)
           /\ lastEvent' = AttemptEvent(i, t, available_windows(user)[k], FALSE)
    /\ run' = [run EXCEPT ![i].idx = @ + 1, ![i].attempted = @ \cup {CurTask(i)}]
    /\ UNCHANGED <<now, ticks, clockRead, users, tasks, ghostVars, syncVars, extVars>>

RunWindow(i) ==
    (IF run[i].tier = "premium" THEN PREMIUM_TIER_WINDOWS ELSE FREE_TIER_WINDOWS)[run[i].window]

\* line 281: update_task_last_reminder(db, task.id, window.name, current_time),
\* then break
MarkSent(i) ==
    /\ run[i].pc = "mark"
    /\ tasks' = update_task_last_reminder(tasks, CurTask(i), RunWindow(i).name,
                                           run[i].current_time)
    /\ run' = [run EXCEPT ![i].pc = "loop", ![i].idx = @ + 1, ![i].window = 0]
    /\ lastEvent' = [NoEvent EXCEPT !.kind = "mark", !.task = CurTask(i),
                                    !.hours = RunWindow(i).hours_before,
                                    !.name = RunWindow(i).name,
                                    !.tier = run[i].tier,
                                    !.sentBefore = tasks[CurTask(i)].sent, !.slot = i,
                                    !.at = run[i].current_time]
    /\ freshSync' = 0
    /\ UNCHANGED <<now, ticks, clockRead, users, ghostVars, owed, courses, remote, syncResult, extVars>>

\* lines 294-307: the loop is over, commit and close
FinishRun(i) ==
    /\ run[i].pc = "loop"
    /\ run[i].idx > Len(run[i].cands)
    /\ run' = [run EXCEPT ![i] = IdleRun]
    /\ lastEvent' = [NoEvent EXCEPT !.kind = "finish", !.slot = i,
                                    !.at = run[i].current_time]
    /\ UNCHANGED <<now, ticks, clockRead, users, tasks, ghostVars, owed, syncVars, extVars>>

\* the run stops outright (process killed, unhandled failure); what was
\* committed stays, the job is retried wholesale by a later StartRun
Crash(i) ==
    /\ run[i].pc # "idle"
    /\ run' = [run EXCEPT ![i] = IdleRun]
    /\ crashedSent' = crashedSent \cup runSent[i]
    /\ lastEvent' = [NoEvent EXCEPT !.kind = "crash", !.slot = i,
                                    !.at = run[i].current_time]
    /\ UNCHANGED <<now, ticks, clockRead, users, tasks, delivered, dupSent, runSent,
                   retryDup, overlapDup, owed, syncVars, extVars>>

Scheduler(i) ==
    \/ StartRun(i)
    \/ NoWindowDue(i)
    \/ SendSucceeds(i)
    \/ SendFails(i)
    \/ MarkSent(i)
    \/ FinishRun(i)
    \/ Crash(i)

\* ---------------------------------------------------------------- subscription lifecycle
\* activation of a free user: update_user_subscription(premium, now + duration)
Activate(u) ==
    /\ users[u].subscription_tier = "free"
    /\ users' = update_user_subscription(users, u, "premium", calculate_expiry_date(now))
    /\ lastEvent' = NoEvent
    /\ freshSync' = 0
    /\ UNCHANGED <<now, ticks, clockRead, owed, tasks, run, ghostVars, courses, remote, syncResult, extVars>>

\* activation of a user whose paid period has run out and whom no sweep has
\* set back yet: the same store call, which looks at no stored tier
Reactivate(u) ==
    /\ users[u].subscription_tier = "premium"
    /\ ~ is_premium(users[u], now)
    /\ users' = update_user_subscription(users, u, "premium", calculate_expiry_date(now))
    /\ lastEvent' = NoEvent
    /\ freshSync' = 0
    /\ UNCHANGED <<now, ticks, clockRead, owed, tasks, run, ghostVars, courses, remote, syncResult, extVars>>

\* the store's update of tier and expiry called as such: any tier, and the
\* expiry either given or left at its default None (line 138)
UpdateSubscription(u) ==
    /\ \E tier \in {"free", "premium"}, expiry_date \in {NULL, calculate_expiry_date(now)} :
           /\ users' = update_user_subscription(users, u, tier, expiry_date)
           /\ users' # users
    /\ lastEvent' = NoEvent
    /\ freshSync' = 0
    /\ UNCHANGED <<now, ticks, clockRead, owed, tasks, run, ghostVars, courses, remote, syncResult, extVars>>

\* check_expiries.process_expired_users: select, revert each, notify each
ExpirySweep ==
    /\ get_expired_premium_users(users, now) # {}
    /\ users' = downgrade_expired_users(users, get_expired_premium_users(users, now))
    /\ lastEvent' = NoEvent
    /\ freshSync' = 0
    /\ UNCHANGED <<now, ticks, clockRead, owed, tasks, run, ghostVars, courses, remote, syncResult, extVars>>

\* ---------------------------------------------------------------- process_expired_users, step by step
\* revert_user_to_free(db, user.id): the downgrade of one user
revert_user_to_free(us, user_id) == downgrade_expired_users(us, {user_id})

\* the downgrades counted per user: a revert of a user whose stored tier is
\* premium is one more
Downgraded(u) ==
    [sweep.downgraded EXCEPT ![u] = IF users[u].subscription_tier = "premium"
                                    THEN @ + 1 ELSE @]

\* the expired users are read; with none the run returns 0
SweepStart ==
    /\ sweep.pc \in {"idle", "done"}
    /\ LET expired_users == Ascending(get_expired_premium_users(users, now))
       IN  sweep' = [IdleSweep EXCEPT !.pc = IF expired_users = <<>> THEN "done" ELSE "loop",
                                      !.at = now,
                                      !.users = users,
                                      !.expired = expired_users,
                                      !.idx = 1,
                                      !.downgraded = sweep.downgraded,
                                      !.attempts = sweep.attempts]
    /\ lastEvent' = NoEvent
    /\ UNCHANGED <<now, ticks, clockRead, owed, users, tasks, run, ghostVars, syncVars,
                   gw, driver, manual>>

\* variant: a notification that fails undoes the downgrade
SweepRevertUnnotified_RollsBack ==
    /\ sweep.pc = "loop"
    /\ sweep.idx <= Len(sweep.expired)
    /\ sweep' = [sweep EXCEPT !.idx = @ + 1,
                              !.reverted = @ \cup {sweep.expired[sweep.idx]},
                              !.unnotified = @ \cup {sweep.expired[sweep.idx]},
                              !.downgraded = Downgraded(sweep.expired[sweep.idx]),
                              !.attempts[sweep.expired[sweep.idx]] = @ + 1]
    /\ lastEvent' = NoEvent
    /\ UNCHANGED <<now, ticks, clockRead, owed, users, tasks, run, ghostVars, syncVars,
                   gw, driver, manual>>

\* one pass of the loop: the user is reverted and notified
SweepRevert ==
    /\ sweep.pc = "loop"
    /\ sweep.idx <= Len(sweep.expired)
    /\ users' = revert_user_to_free(users, sweep.expired[sweep.idx])
    /\ sweep' = [sweep EXCEPT !.idx = @ + 1,
                              !.reverted = @ \cup {sweep.expired[sweep.idx]},
                              !.downgraded = Downgraded(sweep.expired[sweep.idx]),
                              !.attempts[sweep.expired[sweep.idx]] = @ + 1]
    /\ lastEvent' = NoEvent
    /\ freshSync' = 0
    /\ UNCHANGED <<now, ticks, clockRead, owed, tasks, run, ghostVars, courses, remote,
                   syncResult, gw, driver, manual>>

\* one pass of the loop: the user is reverted, send_expiry_notification
\* returns False (send_text_message returned False or raised)
SweepRevertUnnotified ==
    /\ sweep.pc = "loop"
    /\ sweep.idx <= Len(sweep.expired)
    /\ users' = revert_user_to_free(users, sweep.expired[sweep.idx])
    /\ sweep' = [sweep EXCEPT !.idx = @ + 1,
                              !.reverted = @ \cup {sweep.expired[sweep.idx]},
                              !.unnotified = @ \cup {sweep.expired[sweep.idx]},
                              !.downgraded = Downgraded(sweep.expired[sweep.idx]),
                              !.attempts[sweep.expired[sweep.idx]] = @ + 1]
    /\ lastEvent' = NoEvent
    /\ freshSync' = 0
    /\ UNCHANGED <<now, ticks, clockRead, owed, tasks, run, ghostVars, courses, remote,
                   syncResult, gw, driver, manual>>

\* the run stops outright between two users (process killed); what was
\* committed stays, the job is retried wholesale by a later SweepStart
SweepStops ==
    /\ sweep.pc = "loop"
    /\ sweep' = [sweep EXCEPT !.pc = "idle"]
    /\ lastEvent' = NoEvent
    /\ UNCHANGED <<now, ticks, clockRead, owed, users, tasks, run, ghostVars, syncVars,
                   gw, driver, manual>>

\* the run stops outright after revert_user_to_free has committed (line 92)
\* and before send_expiry_notification is called (line 99)
SweepStopsAfterRevert ==
    /\ sweep.pc = "loop"
    /\ sweep.idx <= Len(sweep.expired)
    /\ users' = revert_user_to_free(users, sweep.expired[sweep.idx])
    /\ sweep' = [sweep EXCEPT !.pc = "idle",
                              !.reverted = @ \cup {sweep.expired[sweep.idx]},
                              !.downgraded = Downgraded(sweep.expired[sweep.idx])]
    /\ lastEvent' = NoEvent
    /\ freshSync' = 0
    /\ UNCHANGED <<now, ticks, clockRead, owed, tasks, run, ghostVars, courses, remote,
                   syncResult, gw, driver, manual>>

\* the loop is through: commit
SweepFinish ==
    /\ sweep.pc = "loop"
    /\ sweep.idx > Len(sweep.expired)
    /\ sweep' = [sweep EXCEPT !.pc = "done"]
    /\ lastEvent' = NoEvent
    /\ UNCHANGED <<now, ticks, clockRead, owed, users, tasks, run, ghostVars, syncVars,
                   gw, driver, manual>>

\* ---------------------------------------------------------------- user operations on tasks
CompleteTask(t) ==
    /\ t \in 1..Len(tasks)
    /\ tasks[t].is_completed = FALSE
    /\ tasks' = mark_task_completed(tasks, t)
    /\ lastEvent' = NoEvent
    /\ freshSync' = 0
    /\ UNCHANGED <<now, ticks, clockRead, owed, users, run, ghostVars, courses, remote, syncResult, extVars>>

DeleteTask(t) ==
    /\ t \in 1..Len(tasks)
    /\ tasks[t].is_deleted = FALSE
    /\ tasks' = soft_delete_task(tasks, t)
    /\ lastEvent' = NoEvent
    /\ freshSync' = 0
    /\ UNCHANGED <<now, ticks, clockRead, owed, users, run, ghostVars, courses, remote, syncResult, extVars>>

\* ---------------------------------------------------------------- sync_single_user
\* sync_single_user(db, user), both fetches returned: the mirror is brought to
\* what get_assignments and get_courses returned.  get_assignments and
\* get_courses are each called once (lines 224, 227): fetches counts the
\* times the user's data was fetched in the call
SyncReturns(u, o) ==
    /\ o.courses = "ok"
    /\ o.listing = "ok"
    /\ LET fetched == get_assignments(remote[u], o)
           listed == get_courses(remote[u], o.listing)
           a == sync_user_assignments(tasks, courses, u, fetched.items)
           c == sync_user_courses(courses, u, listed.items)
       IN  /\ tasks' = a.tasks
           /\ courses' = c.courses
           /\ syncResult' = [user |-> u, success |-> TRUE, error |-> "",
                             assignments_added |-> a.added,
                             assignments_updated |-> a.updated,
                             assignments_deleted |-> a.deleted,
                             courses_added |-> c.added,
                             courses_updated |-> c.updated,
                             repeat |-> (freshSync = u /\ o = AllOk),
                             rowsUnchanged |-> (a.tasks = tasks /\ c.courses = courses),
                             outcome |-> o, fetches |-> 1]
    /\ freshSync' = IF o = AllOk THEN u ELSE 0
    /\ lastEvent' = NoEvent
    /\ UNCHANGED <<now, ticks, clockRead, owed, users, remote, run, ghostVars>>

\* the exception that leaves the try block of sync_single_user: that of the
\* courses request of get_assignments, else that of get_courses
raised(o) == IF o.courses # "ok" THEN o.courses ELSE o.listing

\* the except clause of sync_single_user that handles an exception: the first
\* names InvalidTokenError, which is no class of canvas_api.py; the second
\* names CanvasAPIError and so takes its subclasses TokenInvalidError and
\* RateLimitError
except_clause(e) ==
    IF e = "InvalidTokenError" THEN "invalid_token"
    ELSE IF e \in RequestErrors THEN "canvas_api_error"
    ELSE "unexpected_error"

\* sync_single_user(db, user), a fetch raised: the user is skipped for this
\* cycle
SyncRaises(u, o) ==
    /\ raised(o) # "ok"
    /\ users' = IF except_clause(raised(o)) = "invalid_token"
                THEN mark_user_token_invalid(users, u)
                ELSE users
    /\ syncResult' = [NoSync EXCEPT !.user = u,
                                    !.error = except_clause(raised(o)),
                                    !.outcome = o, !.fetches = 1]
    /\ freshSync' = 0
    /\ lastEvent' = NoEvent
    /\ UNCHANGED <<now, ticks, clockRead, owed, tasks, courses, remote, run, ghostVars>>

\* the upstream course ids of a user
CoursesOf(u) == { c.id : c \in remote[u].courses }

\* every request answered
ReconcileOk(u) ==
    /\ SyncReturns(u, AllOk)
    /\ UNCHANGED extVars

\* the assignments request of some course failed and the course was skipped
ReconcilePartial(u) ==
    /\ \E o \in FetchOutcomes(CoursesOf(u)) : o # AllOk /\ SyncReturns(u, o)
    /\ UNCHANGED extVars

\* a fetch raised; get_courses is not called once get_assignments has raised
ReconcileFails(u) ==
    /\ \E o \in FetchOutcomes(CoursesOf(u)) :
          /\ \A c \in CourseIds : o.assignments[c] = "ok"
          /\ o.courses # "ok" => o.listing = "ok"
          /\ SyncRaises(u, o)
    /\ UNCHANGED extVars

\* ---------------------------------------------------------------- process_data_refresh
BATCH_SIZE == 10

\* get_active_users(db): the store's selection of the users to refresh,
\* which queries.py implements as get_users_for_canvas_refresh
get_active_users(us, t) == get_users_for_canvas_refresh(us, t, BATCH_SIZE)

\* the users are read; with none the run returns at once
DriverStart ==
    /\ driver.pc \in {"idle", "done"}
    /\ LET active_users == get_active_users(users, now)
       IN  driver' = [IdleDriver EXCEPT !.pc = IF active_users = <<>> THEN "done" ELSE "loop",
                                        !.queue = active_users,
                                        !.idx = 1]
    /\ lastEvent' = [NoEvent EXCEPT !.kind = "select", !.at = now]
    /\ UNCHANGED <<now, ticks, clockRead, owed, users, tasks, run, ghostVars, syncVars,
                   gw, sweep, manual>>

\* variant: a user's failure ends the run
DriverSyncFails_Stops ==
    /\ driver.pc = "loop"
    /\ driver.idx <= Len(driver.queue)
    /\ \E o \in FetchOutcomes(CoursesOf(driver.queue[driver.idx])) :
          /\ \A c \in CourseIds : o.assignments[c] = "ok"
          /\ o.courses # "ok" => o.listing = "ok"
          /\ SyncRaises(driver.queue[driver.idx], o)
    /\ driver' = [driver EXCEPT !.pc = "done",
                                !.attempted = Append(@, [user |-> driver.queue[driver.idx],
                                                         success |-> FALSE]),
                                !.users_failed = @ + 1]
    /\ UNCHANGED <<gw, sweep, manual>>

\* one pass of the loop, sync_single_user returned success
DriverSyncOk ==
    /\ driver.pc = "loop"
    /\ driver.idx <= Len(driver.queue)
    /\ \E o \in FetchOutcomes(CoursesOf(driver.queue[driver.idx])) :
          SyncReturns(driver.queue[driver.idx], o)
    /\ driver' = [driver EXCEPT !.idx = @ + 1,
                                !.attempted = Append(@, [user |-> driver.queue[driver.idx],
                                                         success |-> TRUE]),
                                !.users_processed = @ + 1]
    /\ UNCHANGED <<gw, sweep, manual>>

\* one pass of the loop, sync_single_user returned an error: counted, and the
\* loop goes on
DriverSyncFails ==
    /\ driver.pc = "loop"
    /\ driver.idx <= Len(driver.queue)
    /\ \E o \in FetchOutcomes(CoursesOf(driver.queue[driver.idx])) :
          /\ \A c \in CourseIds : o.assignments[c] = "ok"
          /\ o.courses # "ok" => o.listing = "ok"
          /\ SyncRaises(driver.queue[driver.idx], o)
          /\ driver' = [driver EXCEPT
                          !.idx = @ + 1,
                          !.attempted = Append(@, [user |-> driver.queue[driver.idx],
                                                   success |-> FALSE]),
                          !.users_failed = @ + 1,
                          !.tokens_invalidated =
                              IF except_clause(raised(o)) = "invalid_token"
                              THEN @ + 1 ELSE @]
    /\ UNCHANGED <<gw, sweep, manual>>

\* the loop is through
DriverFinish ==
    /\ driver.pc = "loop"
    /\ driver.idx > Len(driver.queue)
    /\ driver' = [driver EXCEPT !.pc = "done"]
    /\ lastEvent' = NoEvent
    /\ UNCHANGED <<now, ticks, clockRead, owed, users, tasks, run, ghostVars, syncVars,
                   gw, sweep, manual>>

\* ---------------------------------------------------------------- the user's credential
\* the store flags the credential of user u as invalid
FlagCredential(u) ==
    /\ users[u].token_invalid = FALSE
    /\ users' = mark_user_token_invalid(users, u)
    /\ lastEvent' = NoEvent
    /\ UNCHANGED <<now, ticks, clockRead, owed, tasks, run, ghostVars, syncVars, extVars>>

\* user u supplies a new credential
UpdateCredential(u) ==
    /\ users[u].token_invalid = TRUE
    /\ users' = update_user_canvas_info(users, u, users[u].canvas_token, now)
    /\ lastEvent' = NoEvent
    /\ UNCHANGED <<now, ticks, clockRead, owed, tasks, run, ghostVars, syncVars, extVars>>

\* ---------------------------------------------------------------- the upstream provider
UpstreamPublish(u) ==
    /\ \E a \in UpstreamAssignments(u) :
          /\ ~ \E b \in remote[u].assignments : b.id = a.id
          /\ remote' = [remote EXCEPT ![u].assignments = @ \cup {a}]
    /\ freshSync' = 0
    /\ lastEvent' = NoEvent
    /\ UNCHANGED <<now, ticks, clockRead, owed, users, tasks, courses, syncResult, run, ghostVars, extVars>>

UpstreamWithdraw(u) ==
    /\ \E a \in remote[u].assignments :
          remote' = [remote EXCEPT ![u].assignments = @ \ {a}]
    /\ freshSync' = 0
    /\ lastEvent' = NoEvent
    /\ UNCHANGED <<now, ticks, clockRead, owed, users, tasks, courses, syncResult, run, ghostVars, extVars>>

UpstreamEdit(u) ==
    /\ \E a \in remote[u].assignments, b \in UpstreamAssignments(u) :
          /\ b.id = a.id
          /\ b # a
          /\ remote' = [remote EXCEPT ![u].assignments = (@ \ {a}) \cup {b}]
    /\ freshSync' = 0
    /\ lastEvent' = NoEvent
    /\ UNCHANGED <<now, ticks, clockRead, owed, users, tasks, courses, syncResult, run, ghostVars, extVars>>

UpstreamRenameCourse(u) ==
    /\ \E a \in remote[u].courses, b \in UpstreamCourses(u) :
          /\ b.id = a.id
          /\ b # a
          /\ remote' = [remote EXCEPT ![u].courses = (@ \ {a}) \cup {b}]
    /\ freshSync' = 0
    /\ lastEvent' = NoEvent
    /\ UNCHANGED <<now, ticks, clockRead, owed, users, tasks, courses, syncResult, run, ghostVars, extVars>>

UpstreamChange(u) ==
    \/ UpstreamPublish(u)
    \/ UpstreamWithdraw(u)
    \/ UpstreamEdit(u)
    \/ UpstreamRenameCourse(u)

\* ---------------------------------------------------------------- adding a manual task
\* the add-task flow: refused unless User.can_add_manual_task; the task is
\* stored with the id of the calendar event made for it and the month's
\* counter incremented
AddManualTask(u, events) ==
    /\ can_add_manual_task(users[u], now)
    /\ users[u].manual_tasks_this_month < MaxManual
    /\ \E e \in events :
          LET r == create_manual_task(tasks, u, [title |-> "notes", due_date |-> Due0,
                                                 canvas_event_id |-> e])
          IN  /\ tasks' = r.tasks
              /\ users' = IF r.ok THEN increment_user_monthly_tasks(users, u, now)
                          ELSE users
              /\ manual' = [kind |-> IF r.ok THEN "added" ELSE "failed",
                            user |-> u, at |-> now,
                            premium |-> /\ users[u].subscription_tier = "premium"
                                        /\ users[u].subscription_expiry_date # NULL
                                        /\ now < users[u].subscription_expiry_date,
                            count |-> users[u].manual_tasks_this_month]
    /\ lastEvent' = NoEvent
    /\ freshSync' = 0
    /\ UNCHANGED <<now, ticks, clockRead, owed, run, ghostVars, courses, remote, syncResult,
                   gw, driver, sweep>>

RefuseManualTask(u) ==
    /\ ~ can_add_manual_task(users[u], now)
    /\ manual' = [kind |-> "refused", user |-> u, at |-> now,
                  premium |-> /\ users[u].subscription_tier = "premium"
                              /\ users[u].subscription_expiry_date # NULL
                              /\ now < users[u].subscription_expiry_date,
                  count |-> users[u].manual_tasks_this_month]
    /\ lastEvent' = NoEvent
    /\ UNCHANGED <<now, ticks, clockRead, owed, users, tasks, run, ghostVars, syncVars,
                   gw, driver, sweep>>

\* ---------------------------------------------------------------- the gateway, called directly
CallGetAssignments ==
    /\ \E o \in FetchOutcomes({11, 12}) :
          LET r == get_assignments(remote[1], o)
          IN  /\ o.listing = "ok"
              /\ gw' = [op |-> "get_assignments", outcome |-> o,
                        error |-> r.error, items |-> r.items]
    /\ UNCHANGED <<now, ticks, clockRead, owed, users, tasks, run, ghostVars, lastEvent,
                   syncVars, driver, sweep, manual>>

CallGetCourses ==
    /\ \E request \in RequestOutcomes :
          LET r == get_courses(remote[1], request)
          IN  gw' = [op |-> "get_courses",
                     outcome |-> [AllOk EXCEPT !.courses = request],
                     error |-> r.error, items |-> r.items]
    /\ UNCHANGED <<now, ticks, clockRead, owed, users, tasks, run, ghostVars, lastEvent,
                   syncVars, driver, sweep, manual>>

\* ---------------------------------------------------------------- specifications
\* the reminder scheduler, sequential invocations, with the expiry sweep
Next ==
    \/ Tick
    \/ Scheduler(1)
    \/ ExpirySweep

Spec == Init /\ [][Next]_vars

\* two overlapping invocations of the reminder scheduler
\* (the last instant is inside the query's band of the 2-hour list, outside
\* the tolerance of the 2-hour window)
OverlapInstants == { Due0 - Hours(h) + d : h \in {24, 2}, d \in {300, 600, 1800} }
                       \cup { Due0 - Hours(2) - Minutes(50) }

InitOverlap ==
    /\ now \in OverlapInstants
    /\ ticks = 0
    /\ Mirror0
    /\ InitGhosts

NextOverlap ==
    \/ TickIn(OverlapInstants)
    \/ \E i \in Slots : Scheduler(i)

SpecOverlap == InitOverlap /\ [][NextOverlap]_vars

\* the reconciler of user 1 against a changing upstream, starting from a
\* mirror that holds only the rows of user 2
InitSync ==
    /\ now = Due0 - Hours(168)
    /\ ticks = 0
    /\ users = Users0
    /\ remote = Remote0
    /\ tasks = << NewTask(2, NULL, 201, "quiz", Due0) >>
    /\ courses = << NewCourse(2, 21, "Biology") >>
    /\ InitGhosts

NextSync ==
    \/ ReconcileOk(1)
    \/ ReconcilePartial(1)
    \/ ReconcileFails(1)
    \/ UpstreamChange(1)

SpecSync == InitSync /\ [][NextSync]_vars

\* every job and every user operation over one store
StoreInstants == { Due0 - Hours(8) + 300, Due0 - Hours(2) + 300, Due0 - Hours(2) + 1800 }

InitStore ==
    /\ now \in StoreInstants
    /\ ticks = 0
    /\ Mirror0
    /\ InitGhosts

NextStore ==
    \/ TickIn(StoreInstants)
    \/ StartRun(1) \/ NoWindowDue(1) \/ SendSucceeds(1) \/ SendFails(1)
    \/ MarkSent(1) \/ FinishRun(1)
    \/ Activate(2)
    \/ ExpirySweep
    \/ CompleteTask(2)
    \/ DeleteTask(2)
    \/ ReconcileOk(2)
    \/ UpstreamPublish(2) \/ UpstreamWithdraw(2) \/ UpstreamEdit(2)

SpecStore == InitStore /\ [][NextStore]_vars

\* the gateway over every upstream content and every outcome of its requests
InitGateway ==
    /\ now = Due0 - Hours(168)
    /\ ticks = 0
    /\ users = Users0
    /\ \E as \in SUBSET RawAssignments :
          remote = << [assignments |-> as, courses |-> RawCourses], Remote0[2] >>
    /\ tasks = << NewTask(2, NULL, 201, "quiz", Due0) >>
    /\ courses = << NewCourse(2, 21, "Biology") >>
    /\ InitGhosts

NextGateway ==
    \/ CallGetAssignments
    \/ CallGetCourses

SpecGateway == InitGateway /\ [][NextGateway]_vars

\* the add-task flow around the end of a premium period and a month
ManualInstants ==
    { PremiumExpiry0 - 60, PremiumExpiry0, PremiumExpiry0 + 60, PremiumExpiry0 + Days(31) }

ManualEvents == {501, 502}

InitManual ==
    /\ now \in ManualInstants
    /\ ticks = 0
    /\ \E c1, c2 \in {0, 4, 5} :
          users = << [NewUser("free", NULL) EXCEPT !.manual_tasks_this_month = c1],
                     [NewUser("premium", PremiumExpiry0) EXCEPT !.manual_tasks_this_month = c2] >>
    /\ remote = Remote0
    /\ tasks = << >>
    /\ courses = << >>
    /\ InitGhosts

NextManual ==
    \/ TickIn(ManualInstants)
    \/ \E u \in {1, 2} : AddManualTask(u, ManualEvents)
    \/ \E u \in {1, 2} : RefuseManualTask(u)

SpecManual == InitManual /\ [][NextManual]_vars

\* the writers of Task and Course rows over an upstream whose assignments go
\* and come back
InitUnique == InitSync

NextUnique ==
    \/ ReconcileOk(1)
    \/ UpstreamPublish(1)
    \/ UpstreamWithdraw(1)
    \/ AddManualTask(1, ManualEvents)

SpecUnique == InitUnique /\ [][NextUnique]_vars

\* the driver over users of whom some are inactive or hold an invalid
\* credential
LastSyncs == {NULL, Due0 - Hours(168) - Hours(7), Due0 - Hours(168) - Hours(1)}

InitDriver ==
    /\ now = Due0 - Hours(168)
    /\ ticks = 0
    /\ \E a1, a2 \in BOOLEAN, s1 \in LastSyncs :
          users = << [Users0[1] EXCEPT !.is_active = a1, !.last_sync_at = s1],
                     [Users0[2] EXCEPT !.is_active = a2] >>
    /\ remote = Remote0
    /\ tasks = << >>
    /\ courses = << >>
    /\ InitGhosts

NextDriver ==
    \/ DriverStart
    \/ DriverSyncOk
    \/ DriverSyncFails
    \/ DriverFinish
    \/ FlagCredential(1)
    \/ UpdateCredential(1)

SpecDriver == InitDriver /\ [][NextDriver]_vars

\* the sweep over users of every tier whose premium period ends just before,
\* at and just after the instant of the sweep
ExpiryInstants == { PremiumExpiry0, PremiumExpiry0 + 1, PremiumExpiry0 + 2 }

ExpiryUsers ==
    { NewUser("free", NULL),
      NewUser("premium", PremiumExpiry0 - 1),
      NewUser("premium", PremiumExpiry0),
      NewUser("premium", PremiumExpiry0 + 1),
      [NewUser("premium", PremiumExpiry0 - 1) EXCEPT !.is_active = FALSE] }

InitExpiry ==
    /\ now = PremiumExpiry0
    /\ ticks = 0
    /\ users \in [1..3 -> ExpiryUsers]
    /\ remote = Remote0
    /\ tasks = << >>
    /\ courses = << >>
    /\ InitGhosts

NextExpiry ==
    \/ TickIn(ExpiryInstants)
    \/ SweepStart
    \/ SweepRevert
    \/ SweepRevertUnnotified
    \/ SweepFinish

SpecExpiry == InitExpiry /\ [][NextExpiry]_vars

\* the sweep is a cron job: it keeps being started, and a started run goes
\* through its loop to the end
SpecExpiryLive ==
    /\ InitExpiry
    /\ [][NextExpiry]_vars
    /\ WF_vars(SweepStart)
    /\ WF_vars(SweepRevert \/ SweepRevertUnnotified)
    /\ WF_vars(SweepFinish)

\* the sweep with activations in between and with runs that stop part-way
InitSweep ==
    /\ now = PremiumExpiry0
    /\ ticks = 0
    /\ users \in [1..2 -> ExpiryUsers]
    /\ remote = Remote0
    /\ tasks = << >>
    /\ courses = << >>
    /\ InitGhosts

NextSweep ==
    \/ TickIn(ExpiryInstants)
    \/ SweepStart
    \/ SweepRevert
    \/ SweepRevertUnnotified
    \/ SweepStops
    \/ SweepStopsAfterRevert
    \/ SweepFinish
    \/ \E u \in 1..2 : Activate(u)
    \/ \E u \in 1..2 : Reactivate(u)
    \/ UpdateSubscription(1)

SpecSweep == InitSweep /\ [][NextSweep]_vars

\* the scheduler at the ends of every window's band, one second outside them
\* and at the window mark
BandOffsets == {0 - 1801, 0 - 1800, 0, 1800, 1801}
BandInstants == { Due0 - Hours(h) + d : h \in WindowHours, d \in BandOffsets }

InitBand ==
    /\ now \in BandInstants
    /\ ticks = 0
    /\ Mirror0
    /\ InitGhosts

NextBand ==
    \/ TickIn(BandInstants)
    \/ StartRun(1) \/ NoWindowDue(1) \/ SendSucceeds(1) \/ SendFails(1)
    \/ MarkSent(1) \/ FinishRun(1)

SpecBand == InitBand /\ [][NextBand]_vars

\* ---------------------------------------------------------------- properties
\* C1: across all invocations of the scheduler there is at most one
\* successful dispatch for a (task, window) pair while the task's due date
\* is unchanged: no triple (task, window, target instant) is delivered twice
\* (dispatches repeated after a stopped invocation are counted under C8).
C1_AtMostOncePerWindow == dupSent = FALSE

\* C2: within one invocation a task gets at most one dispatch attempt, and
\* the attempt is for the furthest-out window of the user's list that is
\* inside its band and whose marker is false.
C2_OneAttemptFurthestUnsent ==
    lastEvent.kind = "attempt" =>
        /\ lastEvent.again = FALSE
        /\ lastEvent.dueUnsent # {}
        /\ lastEvent.hours = Furthest(lastEvent.dueUnsent)

\* C3: when an invocation attempts a task for which two windows were due and
\* unsent, the nearer window's marker stays false after that invocation, and
\* the next invocation whose clock is inside the nearer window's band
\* dispatches the nearer window.
C3_NearerWindowLeftForNextRun ==
    /\ (owed.task # 0 /\ owed.answered = FALSE) =>
            tasks[owed.task].sent[MarkerOf(owed.hours)] = FALSE
    /\ (owed.task # 0 /\ owed.answered = TRUE) => owed.by = owed.hours

\* C3 witness: a nearer window was left over and a later invocation inside
\* its band attempted it
C3_Witness ==
    /\ owed.task # 0
    /\ owed.answered = TRUE
    /\ owed.by = owed.hours
    /\ lastEvent.kind = "attempt"
    /\ lastEvent.at > owed.since

\* C4: a sent-marker that is true is true in every later state of the same
\* task row, whatever the scheduler, the reconciler, completion, soft
\* deletion or a tier change did in between; rows are never removed.
C4_MarkersMonotone ==
    [][ /\ Len(tasks') >= Len(tasks)
        /\ \A t \in 1..Len(tasks) : \A r \in ReminderTypes :
              tasks[t].sent[r] => tasks'[t].sent[r] ]_vars

\* C4 witness: a marker is true on a row whose due date the reconciler has
\* changed since, and whose user has been downgraded
C4_Witness ==
    \E t \in 1..Len(tasks) :
        /\ tasks[t].sent["2_hours"] = TRUE
        /\ tasks[t].due_date = LaterDue
        /\ users[tasks[t].user_id].subscription_tier = "free"

\* C5: for a user whose tier is free only the 24-hour window is attempted,
\* and a dispatch made for a free user sets no marker other than the
\* 24-hour one.
C5_FreeTierOnly24h ==
    /\ (lastEvent.kind = "attempt" /\ lastEvent.tier = "free") => lastEvent.hours = 24
    /\ (lastEvent.kind = "mark" /\ lastEvent.tier = "free") =>
            \A r \in ReminderTypes \ {"1_day"} :
                tasks[lastEvent.task].sent[r] = lastEvent.sentBefore[r]

\* C5 witness: the 24-hour reminder of a free user's task was dispatched and
\* the marker write that follows the dispatch has run
C5_Witness ==
    /\ lastEvent.kind = "mark"
    /\ lastEvent.tier = "free"
    /\ lastEvent.hours = 24
    /\ users[tasks[lastEvent.task].user_id].subscription_tier = "free"

\* C6: a window other than the 24-hour one is attempted only for a user who
\* is active premium at the invocation's clock (tier premium and clock
\* before the expiry).
C6_SixWindowsOnlyActivePremium ==
    (lastEvent.kind = "attempt" /\ lastEvent.hours # 24) => lastEvent.premium = TRUE

\* C7: a failed dispatch leaves every marker of the task as it was, the task
\* is selected again for the same window at every later instant of the band,
\* and a marker is true only if a dispatch of its window succeeded.
C7_FailedDispatchRetried ==
    /\ (lastEvent.kind = "attempt" /\ lastEvent.ok = FALSE) =>
          LET t == lastEvent.task
              user == users[tasks[t].user_id]
          IN  /\ tasks[t].sent = lastEvent.sentBefore
              /\ \A n \in Instants :
                    (n > lastEvent.at /\ InBand(n, tasks[t].due_date, lastEvent.hours)) =>
                        LET cs == TasksToCheck(tasks, users, n)
                            k == FirstDueWindow(tasks[t], user, n)
                        IN  /\ \E j \in 1..Len(cs) : cs[j] = t
                            /\ k # 0
                            /\ available_windows(user)[k].hours_before = lastEvent.hours
    /\ \A t \in 1..Len(tasks) : \A r \in ReminderTypes :
          tasks[t].sent[r] =>
              \E x \in delivered : x.task = t /\ MarkerOf(x.hours) = r

\* C7 witness: a dispatch failed while a later instant of the same band is
\* still to come
C7_Witness ==
    /\ lastEvent.kind = "attempt"
    /\ lastEvent.ok = FALSE
    /\ \E n \in Instants :
          /\ n > lastEvent.at
          /\ InBand(n, tasks[lastEvent.task].due_date, lastEvent.hours)

\* C8: when an invocation stops part-way and the job is run again, no
\* (task, window) dispatched by the stopped invocation is dispatched again.
C8_NoResendAfterCrash == retryDup = FALSE

\* C9: with two invocations overlapping in time, each (task, window) is
\* dispatched at most once, and after a successful dispatch has been
\* recorded the marker of its window is true.
C9_OverlapDispatchesOnce ==
    /\ overlapDup = FALSE
    /\ lastEvent.kind = "mark" =>
          tasks[lastEvent.task].sent[MarkerOf(lastEvent.hours)] = TRUE

\* C10: a reconciliation of a user run again on the same snapshot with no
\* change in between reports zero added, updated and removed, and leaves
\* every row as it was.
C10_SecondReconcileIsNoOp ==
    (syncResult.success /\ syncResult.repeat) =>
        /\ syncResult.assignments_added = 0
        /\ syncResult.assignments_updated = 0
        /\ syncResult.assignments_deleted = 0
        /\ syncResult.courses_added = 0
        /\ syncResult.courses_updated = 0
        /\ syncResult.rowsUnchanged = TRUE

\* C13: a gateway call that returns a list returns the complete list: every
\* available course for get_courses, every assignment of an available course
\* that is published and has a parseable due date for get_assignments; a
\* failed request never shortens a successful result.
C13_CompleteOrError ==
    gw.error = "none" =>
        /\ gw.op = "get_courses" =>
              gw.items = { c \in remote[1].courses : c.workflow_state = "available" }
        /\ gw.op = "get_assignments" =>
              gw.items = { a \in remote[1].assignments :
                             /\ \E c \in remote[1].courses :
                                   c.id = a.course_id /\ c.workflow_state = "available"
                             /\ a.workflow_state = "published"
                             /\ a.due_at.fmt \in Formats }

SyncStep ==
    /\ syncResult'.user = 1
    /\ remote' = remote
    /\ manual' = manual
    /\ (syncResult' # syncResult \/ tasks' # tasks \/ courses' # courses \/ users' # users)

\* C11: a successful Reconcile with snapshot id set S over the mirrored
\* (non-deleted) id set M creates one task for exactly the ids in S \ M,
\* soft-deletes exactly the tasks with ids in M \ S, and neither creates nor
\* soft-deletes an id in both.
C11_SetCorrectDiff ==
    [][ (SyncStep /\ syncResult'.success) =>
          LET S == { a.id : a \in get_assignments(remote[1], syncResult'.outcome).items }
              M == { tasks[t].canvas_assignment_id :
                       t \in { x \in 1..Len(tasks) :
                                 /\ tasks[x].user_id = 1
                                 /\ tasks[x].is_deleted = FALSE
                                 /\ tasks[x].canvas_assignment_id # NULL } }
              created == (Len(tasks) + 1)..Len(tasks')
              removed == { t \in 1..Len(tasks) :
                             tasks[t].is_deleted = FALSE /\ tasks'[t].is_deleted = TRUE }
          IN  /\ { tasks'[t].canvas_assignment_id : t \in created } = S \ M
              /\ Cardinality(created) = Cardinality(S \ M)
              /\ \A t \in created : tasks'[t].user_id = 1 /\ tasks'[t].is_deleted = FALSE
              /\ removed = { t \in 1..Len(tasks) :
                               /\ tasks[t].user_id = 1
                               /\ tasks[t].is_deleted = FALSE
                               /\ tasks[t].canvas_assignment_id \in M \ S } ]_vars

\* C12: when any request of the upstream fetch of a user fails, Reconcile
\* leaves every previously mirrored task of that user whose assignment still
\* exists upstream as it was: not soft-deleted, not changed.
C12_FailedFetchKeepsMirror ==
    [][ (SyncStep /\ syncResult'.outcome # AllOk) =>
          \A t \in 1..Len(tasks) :
              ( /\ tasks[t].user_id = 1
                /\ \E a \in remote[1].assignments : a.id = tasks[t].canvas_assignment_id )
              => tasks'[t] = tasks[t] ]_vars

\* C14: when the upstream fetch of a user fails with auth-invalid (the
\* gateway raises it to Reconcile), Reconcile sets the user's
\* credential-invalid flag, reports an error and leaves every Task and Course
\* row as it was.
C14_AuthInvalidFlagsUser ==
    [][ ( /\ SyncStep
          /\ \/ syncResult'.outcome.courses = "TokenInvalidError"
             \/ /\ syncResult'.outcome.courses = "ok"
                /\ syncResult'.outcome.listing = "TokenInvalidError" )
        => /\ users'[1].token_invalid = TRUE
           /\ syncResult'.success = FALSE
           /\ syncResult'.error # ""
           /\ tasks' = tasks
           /\ courses' = courses ]_vars

\* C18: no two Task rows of a user carry the same assignment id, no two the
\* same event id, and no two Course rows of a user the same upstream course
\* id, soft-deleted rows included.
C18_Uniqueness ==
    /\ \A s, t \in 1..Len(tasks) :
          ( /\ s # t
            /\ tasks[s].user_id = tasks[t].user_id )
          => /\ tasks[s].canvas_assignment_id # NULL
                  => tasks[s].canvas_assignment_id # tasks[t].canvas_assignment_id
             /\ tasks[s].canvas_event_id # NULL
                  => tasks[s].canvas_event_id # tasks[t].canvas_event_id
    /\ \A c, d \in 1..Len(courses) :
          (c # d /\ courses[c].user_id = courses[d].user_id)
          => courses[c].canvas_course_id # courses[d].canvas_course_id

\* C18 witness: an assignment whose row was soft-deleted is upstream again
\* and Reconcile has just run on it, with manual tasks stored and one more
\* refused for its event id
C18_Witness ==
    /\ \E s, t \in 1..Len(tasks) : s # t /\ tasks[s].canvas_event_id # NULL
                                       /\ tasks[t].canvas_event_id # NULL
    /\ manual.kind = "failed"
    /\ syncResult.user = 1
    /\ syncResult.success
    /\ freshSync = 1
    /\ \E t \in 1..Len(tasks) :
          /\ tasks[t].user_id = 1
          /\ tasks[t].is_deleted = TRUE
          /\ \E a \in remote[1].assignments : a.id = tasks[t].canvas_assignment_id

\* C20: a manual task is added for a user who is not active premium (free,
\* or premium with the expiry passed) only while the month's counter is below
\* 5, and an active premium user (tier premium, now < expiry) is never
\* refused.
C20_ManualEntitlement ==
    /\ manual.kind = "added" => (manual.premium \/ manual.count < 5)
    /\ manual.kind = "refused" => (~ manual.premium /\ manual.count >= 5)

\* C20 witness: a user whose stored tier is premium and whose expiry has
\* passed is refused at 5 tasks
C20_Witness ==
    /\ manual.kind = "refused"
    /\ manual.user = 2
    /\ users[2].subscription_tier = "premium"
    /\ manual.at >= users[2].subscription_expiry_date
    /\ manual.count = 5

\* C15: in a driver run the users attempted so far are the first of the
\* selected users, each once and in order; every active user with a valid
\* credential is among the selected; when the run is through every selected
\* user has been attempted, whatever failed on the way.
C15_EveryUserAttemptedOnce ==
    driver.pc # "idle" =>
        /\ lastEvent.kind = "select" =>
              \A u \in DOMAIN users :
                  (users[u].is_active /\ ~ users[u].token_invalid) =>
                      \E k \in 1..Len(driver.queue) : driver.queue[k] = u
        /\ \A k \in 1..Len(driver.queue) : users[driver.queue[k]].is_active
        /\ \A j, k \in 1..Len(driver.queue) : j # k => driver.queue[j] # driver.queue[k]
        /\ Len(driver.attempted) <= Len(driver.queue)
        /\ \A k \in 1..Len(driver.attempted) : driver.attempted[k].user = driver.queue[k]
        /\ driver.pc = "done" => Len(driver.attempted) = Len(driver.queue)
        /\ driver.users_processed + driver.users_failed = Len(driver.attempted)

\* C15 witness: a finished run in which the first user failed and the second
\* was processed
C15_Witness ==
    /\ driver.pc = "done"
    /\ Len(driver.attempted) = 2
    /\ driver.attempted[1].success = FALSE
    /\ driver.attempted[2].success = TRUE

\* C16: the users the sweep selects at its instant are exactly those whose
\* stored tier is premium and whose expiry is at or before that instant, and
\* the sweep downgrades none but these.
C16_SweepSelectsExpired ==
    sweep.pc # "idle" =>
        /\ { sweep.expired[k] : k \in 1..Len(sweep.expired) }
              = { u \in DOMAIN sweep.users :
                    /\ sweep.users[u].subscription_tier = "premium"
                    /\ sweep.at >= sweep.users[u].subscription_expiry_date }
        /\ sweep.reverted \subseteq { sweep.expired[k] : k \in 1..Len(sweep.expired) }

\* C17: every user the sweep has downgraded is free with no expiry, notified
\* or not, and when the sweep is through every selected user has been
\* downgraded.
C17_DowngradeAuthoritative ==
    /\ \A u \in sweep.reverted :
          /\ users[u].subscription_tier = "free"
          /\ users[u].subscription_expiry_date = NULL
    /\ sweep.pc = "done" =>
          sweep.reverted = { sweep.expired[k] : k \in 1..Len(sweep.expired) }

\* C17 witness: a finished sweep whose first notification failed and whose
\* next user was downgraded all the same
C17_Witness ==
    /\ sweep.pc = "done"
    /\ Len(sweep.expired) >= 2
    /\ sweep.expired[1] \in sweep.unnotified
    /\ users[sweep.expired[1]].subscription_tier = "free"
    /\ users[sweep.expired[2]].subscription_tier = "free"

C22_MarkerOfWindowSet ==
    lastEvent.kind = "mark" =>
        tasks[lastEvent.task].sent =
            [lastEvent.sentBefore EXCEPT ![MarkerOf(lastEvent.hours)] = TRUE]

\* C23: while an invocation is between two tasks, the marker of every
\* (task, window) it has dispatched successfully so far is true in the store.
C23_MarkerPersistedBeforeNext ==
    \A i \in Slots :
        run[i].pc = "loop" =>
            \A x \in runSent[i] : tasks[x.task].sent[MarkerOf(x.hours)] = TRUE

\* C24: a dispatch is never made for a task that is completed or soft-deleted
\* in the store, nor to a user whose notifications are disabled.
C24_NoDispatchForClosedTask ==
    (lastEvent.kind = "attempt" /\ lastEvent.ok) =>
        /\ tasks[lastEvent.task].is_completed = FALSE
        /\ tasks[lastEvent.task].is_deleted = FALSE
        /\ users[tasks[lastEvent.task].user_id].reminder_enabled = TRUE

\* the step in which invocation i's dispatch fails
C25_FailureStep(i) ==
    (/\ run[i].pc = "loop"
     /\ lastEvent'.kind = "attempt"
     /\ lastEvent'.ok = FALSE
     /\ lastEvent'.slot = i
     /\ lastEvent' # lastEvent) =>
        /\ run'[i].pc = "loop"
        /\ run'[i].cands = run[i].cands
        /\ run'[i].current_time = run[i].current_time
        /\ run'[i].idx = run[i].idx + 1
        /\ lastEvent'.task = run[i].cands[run[i].idx]

\* every candidate invocation i has passed was attempted if a window was due
C25_Passed(i) ==
    run[i].pc = "loop" =>
        \A k \in 1..(run[i].idx - 1) :
            LET t == run[i].cands[k]
            IN  \/ t \in run[i].attempted
                \/ FirstDueWindow(tasks[t], users[tasks[t].user_id],
                                  run[i].current_time) = 0

\* invocation i finishes only past its last candidate
C25_EndsAfterLast(i) ==
    (lastEvent'.kind = "finish" /\ lastEvent'.slot = i /\ run[i].pc = "loop") =>
        run[i].idx > Len(run[i].cands)

\* C25: within one invocation a failed dispatch does not stop the run: the
\* step that fails leaves the invocation in its loop on the next candidate
\* with the candidate list as it was, every candidate the loop has passed was
\* dispatched for whenever one of its windows was due, and the invocation
\* ends only after its last candidate.
C25_FailureDoesNotStopRun ==
    [][\A i \in Slots :
          /\ C25_FailureStep(i)
          /\ C25_Passed(i)
          /\ C25_EndsAfterLast(i)]_vars

\* C25 witness: a dispatch is made for a later candidate of an invocation in
\* which the dispatch for an earlier candidate failed
C25_Witness ==
    /\ lastEvent.kind = "attempt"
    /\ lastEvent.ok = TRUE
    /\ \E t \in run[lastEvent.slot].attempted :
          /\ t # lastEvent.task
          /\ \A x \in runSent[lastEvent.slot] : x.task # t

\* C26: for an assignment id in both the snapshot and the mirror, a
\* successful Reconcile leaves the task with the upstream title and due
\* instant, and counts as updated exactly the tasks whose title or due
\* instant differed from the upstream record.
C26_UpdateIffTitleOrDueDiffers ==
    [][ (SyncStep /\ syncResult'.success) =>
          LET items == get_assignments(remote[1], syncResult'.outcome).items
              both == { t \in 1..Len(tasks) :
                          /\ tasks[t].user_id = 1
                          /\ tasks[t].is_deleted = FALSE
                          /\ \E a \in items : a.id = tasks[t].canvas_assignment_id }
              up(t) == CHOOSE a \in items : a.id = tasks[t].canvas_assignment_id
              differs(t) == \/ up(t).name # tasks[t].title
                            \/ up(t).due_at.t # tasks[t].due_date
          IN  /\ \A t \in both : /\ tasks'[t].title = up(t).name
                                 /\ tasks'[t].due_date = up(t).due_at.t
              /\ syncResult'.assignments_updated =
                    Cardinality({ t \in both : differs(t) }) ]_vars

\* a step that is a complete reconciliation of user 2: the result is
\* written, and nothing but the mirror changes
ReconcileStep ==
    /\ syncResult'.user = 2
    /\ syncResult'.success
    /\ freshSync' = 2
    /\ remote' = remote /\ users' = users /\ run' = run /\ now' = now
    /\ lastEvent' = NoEvent

\* C27: a Reconcile of a user leaves every mirrored task whose assignment is
\* in the snapshot as it was except for its title and due date: the six
\* sent-markers, the completed flag, the soft-delete flag, the origin, the
\* owner, the course and the correlation ids are unchanged, also when the due
\* date moves.
C27_UpdateTouchesTitleAndDueOnly ==
    [][ ReconcileStep =>
          \A t \in 1..Len(tasks) :
              ( /\ t \in get_user_canvas_tasks(tasks, 2)
                /\ \E a \in remote[2].assignments : a.id = tasks[t].canvas_assignment_id )
              => tasks'[t] = [tasks[t] EXCEPT !.title = tasks'[t].title,
                                              !.due_date = tasks'[t].due_date] ]_vars

\* C27 witness: the reconciliation has just moved the due date of a
\* completed task one of whose markers is set
C27_Witness ==
    /\ freshSync = 2
    /\ syncResult.user = 2
    /\ syncResult.assignments_updated >= 1
    /\ \E t \in 1..Len(tasks) :
          /\ tasks[t].user_id = 2
          /\ tasks[t].due_date = LaterDue
          /\ tasks[t].is_completed = TRUE
          /\ tasks[t].is_deleted = FALSE
          /\ tasks[t].sent["8_hours"] = TRUE

\* C28: when a mirrored assignment of a user is no longer in the snapshot,
\* Reconcile marks its task soft-deleted and removes no row: the row is still
\* there with its id, correlation id, markers and every other field as
\* before, and it is no longer among the user's active mirrored tasks.
C28_SoftDeleteKeepsRow ==
    [][ ReconcileStep =>
          /\ Len(tasks') >= Len(tasks)
          /\ \A t \in 1..Len(tasks) :
                ( /\ t \in get_user_canvas_tasks(tasks, 2)
                  /\ \A a \in remote[2].assignments :
                        a.id # tasks[t].canvas_assignment_id )
                => /\ tasks'[t] = [tasks[t] EXCEPT !.is_deleted = TRUE]
                   /\ t \notin get_user_canvas_tasks(tasks', 2) ]_vars

\* C28 witness: the reconciliation has just soft-deleted a task that had a
\* marker set and whose assignment was withdrawn upstream
C28_Witness ==
    /\ freshSync = 2
    /\ syncResult.user = 2
    /\ syncResult.assignments_deleted >= 1
    /\ \E t \in 1..Len(tasks) :
          /\ tasks[t].user_id = 2
          /\ tasks[t].is_deleted = TRUE
          /\ tasks[t].canvas_assignment_id = 201
          /\ tasks[t].sent["8_hours"] = TRUE
          /\ \A a \in remote[2].assignments : a.id # 201

\* C29: when the upstream fetch of a user is rate-limited (the gateway
\* raises the rate-limit error to Reconcile), Reconcile fetches the user's
\* data a second time, once: the call ends after exactly two fetches, with
\* the reconciliation done or with a transient error reported.
C29_RateLimitRetriedOnce ==
    [][ (SyncStep /\ raised(syncResult'.outcome) = "RateLimitError") =>
          /\ syncResult'.fetches = 2
          /\ syncResult'.success \/ syncResult'.error = "canvas_api_error" ]_vars

\* C30: a driver run selects no user whose credential is flagged invalid,
\* however old the user's last sync is (the run fetches for exactly the users
\* it selected): when the batch is selected the flag is false for every user
\* in it.
C30_InvalidCredentialNotSelected ==
    lastEvent.kind = "select" =>
        \A k \in 1..Len(driver.queue) : users[driver.queue[k]].token_invalid = FALSE

\* C31: every Task row a successful Reconcile creates for an upstream
\* assignment of course c references a Course row of the same user whose
\* upstream course id is c (the Course row is in the store, created in the
\* same Reconcile if it was absent, when the Task row is created).
C31_CreatedTaskReferencesCourse ==
    [][ (SyncStep /\ syncResult'.success) =>
          \A t \in (Len(tasks) + 1)..Len(tasks') :
              LET a == CHOOSE x \in remote[1].assignments :
                           x.id = tasks'[t].canvas_assignment_id
                  c == tasks'[t].course_id
              IN  /\ c \in 1..Len(courses')
                  /\ courses'[c].user_id = 1
                  /\ courses'[c].canvas_course_id = a.course_id ]_vars

C33_OneNoticePerDowngrade ==
    sweep.pc # "loop" =>
        \A u \in DOMAIN users : sweep.attempts[u] = sweep.downgraded[u]

\* C40: when a loop pass of the sweep applies its flip to a user who is
\* active premium at that moment (re-activated since the selection: tier
\* premium and expiry in the future), the user's row is left as it is.
C40_ActivePremiumNotDowngraded ==
    [][ \A u \in DOMAIN users :
          ( /\ sweep.pc = "loop"
            /\ sweep'.reverted = sweep.reverted \cup {u}
            /\ u \notin sweep.reverted
            /\ is_premium(users[u], now) )
          => users'[u] = users[u] ]_vars

C35_PremiumHasExpiry ==
    \A u \in DOMAIN users :
        users[u].subscription_tier = "premium" => users[u].subscription_expiry_date # NULL

\* C36: in every reachable state a Task row has at most one of
\* canvas_assignment_id and canvas_event_id set, and only the one of its
\* source: an assignment row only the assignment id, an event row only the
\* event id, a manual row neither.
C36_CorrelationFieldMatchesSource ==
    \A t \in 1..Len(tasks) :
        /\ ~ (tasks[t].canvas_assignment_id # NULL /\ tasks[t].canvas_event_id # NULL)
        /\ tasks[t].canvas_assignment_id # NULL => tasks[t].source = "canvas_assignment"
        /\ tasks[t].canvas_event_id # NULL => tasks[t].source = "canvas_event"
        /\ tasks[t].source = "manual_entry" =>
              /\ tasks[t].canvas_assignment_id = NULL
              /\ tasks[t].canvas_event_id = NULL

\* C37: after a Reconcile of user 1 that returns without error, the
\* assignment ids of the user's non-deleted assignment tasks are exactly the
\* assignment ids of the snapshot the Reconcile fetched, whatever the mirror
\* held before, soft-deleted rows included.
C37_MirrorConverges ==
    [][ (SyncStep /\ syncResult'.success) =>
          LET items == get_assignments(remote[1], syncResult'.outcome).items
          IN  { tasks'[t].canvas_assignment_id : t \in get_user_canvas_tasks(tasks', 1) }
                  = { a.id : a \in items } ]_vars

\* C38: a user whose stored tier is premium and whose expiry has passed or is
\* null, whether the account is flagged active or not, is eventually on the
\* free tier, the sweep being started again and again and every started run
\* going through.
C38_DowngradeLiveness ==
    \A u \in 1..3 :
        ( /\ users[u].subscription_tier = "premium"
          /\ \/ users[u].subscription_expiry_date = NULL
             \/ users[u].subscription_expiry_date < now )
        ~> (users[u].subscription_tier = "free")

\* C39: a Reconcile of user 1 leaves every task row whose source is
\* manual_entry or canvas_event as it is, and every Task, Course and User row
\* of another user as it is; the rows it adds belong to user 1.
C39_ReconcileFrame ==
    [][ SyncStep =>
          /\ Len(tasks') >= Len(tasks)
          /\ Len(courses') >= Len(courses)
          /\ \A t \in 1..Len(tasks) :
                (tasks[t].source \in {"manual_entry", "canvas_event"} \/ tasks[t].user_id # 1)
                    => tasks'[t] = tasks[t]
          /\ \A t \in (Len(tasks) + 1)..Len(tasks') : tasks'[t].user_id = 1
          /\ \A c \in 1..Len(courses) : courses[c].user_id # 1 => courses'[c] = courses[c]
          /\ \A c \in (Len(courses) + 1)..Len(courses') : courses'[c].user_id = 1
          /\ \A u \in DOMAIN users \ {1} : users'[u] = users[u] ]_vars

\* C39 witness: a Reconcile of user 1 has just soft-deleted a task of the
\* user while the user holds a manual task and user 2 a task and a course
C39_Witness ==
    /\ freshSync = 1
    /\ syncResult.success
    /\ syncResult.assignments_deleted >= 1
    /\ \E t \in 1..Len(tasks) : /\ tasks[t].user_id = 1
                                /\ tasks[t].source = "manual_entry"
                                /\ tasks[t].is_deleted = FALSE
    /\ \E t \in 1..Len(tasks) : tasks[t].user_id = 2 /\ tasks[t].is_deleted = FALSE
    /\ \E c \in 1..Len(courses) : courses[c].user_id = 2

====
